---- MODULE Spec2Model ----
(***************************************************************************)
(* A model of Bimap<K, V, S> (src/src/lib.rs): a two-way map kept as two   *)
(* HashMaps, fwd : K -> V and rev : V -> K.  Every public method is a pure *)
(* operator from the two maps (and the arguments) to the two maps it       *)
(* leaves behind, the outcome of the call ("ok" or "panic") and the value  *)
(* it returns; one action per method applies the operator to the state.    *)
(* A panicking call unwinds out of the method: what it had already written *)
(* to the maps stays written.                                              *)
(***************************************************************************)
EXTENDS Integers, FiniteSets, Sequences, TLC

\* Number of distinct keys and of distinct values the calls draw from.
MaxKey == 3
MaxVal == 3

Keys == 1..MaxKey
Vals == {10 + i : i \in 1..MaxVal}

VARIABLES
    fwd,     \* Bimap::fwd, a function from the keys present to their values
    rev,     \* Bimap::rev, a function from the values present to their keys
    valid,   \* every call since construction met its documented precondition
    op,      \* the method called last
    key,     \* its key argument, Some(k), or None
    val,     \* its value argument, Some(v), or None
    input,   \* the HashMap handed to from_hash_map, else the empty map
    result,  \* "ok": the call returned; "panic": it panicked
    ret,     \* the value the call returned, Some(x), or None
    freed,   \* Some(<<k, v>>): the last call is an insert, and the call before
             \* it was a removal that returned, of the pair (k, v); else None
    iter_order, \* the order in which from_hash_map iterated over its input, else <<>>
    before,  \* Some([fwd, rev]): the two maps as the last call found them;
             \* None after a constructor
    origin   \* Some([fwd, rev]): the last call is a removal, and the call
             \* before it was an insert, which found the two maps so; else None

vars ==
    <<fwd, rev, valid, op, key, val, input, result, ret, freed, iter_order,
      before, origin>>

----------------------------------------------------------------------------
(* Option<T> *)

None == <<>>
Some(x) == <<x>>

----------------------------------------------------------------------------
(* std::collections::HashMap, as a function whose domain is the keys held  *)

HashMapNew == [x \in {} |-> 0]

HashMapLen(m) == Cardinality(DOMAIN m)

HashMapGet(m, k) == IF k \in DOMAIN m THEN Some(m[k]) ELSE None

HashMapContainsKey(m, k) == k \in DOMAIN m

\* HashMap::insert, which overwrites (what collect() uses through extend).
HashMapInsert(m, k, v) ==
    [x \in (DOMAIN m) \cup {k} |-> IF x = k THEN v ELSE m[x]]

\* HashMap::remove: the map left, and the Option of the value removed.
HashMapRemove(m, k) ==
    [map |-> [x \in (DOMAIN m) \ {k} |-> m[x]], out |-> HashMapGet(m, k)]

\* The orders in which HashMap::iter may yield the entries of m: any.
IterOrders(m) ==
    {s \in [1..Cardinality(DOMAIN m) -> DOMAIN m] :
        \A i, j \in 1..Cardinality(DOMAIN m) : i # j => s[i] # s[j]}

\* HashMap::iter in one such order: the sequence of (key, value) pairs.
HashMapIter(m, order) == [i \in 1..Len(order) |-> <<order[i], m[order[i]]>>]

\* Every HashMap<K, V> over the keys and values of the model.
HashMaps == UNION {[D -> Vals] : D \in SUBSET Keys}

----------------------------------------------------------------------------
(* Bimap's methods *)

Outcome(f, r, res, out) == [fwd |-> f, rev |-> r, result |-> res, ret |-> out]

new == Outcome(HashMapNew, HashMapNew, "ok", None)

\* collect() that keeps the entry a value already has: the first pair wins.
RECURSIVE collect_first_wins(_, _, _)
collect_first_wins(pairs, i, acc) ==
    IF i > Len(pairs) THEN acc
    ELSE IF pairs[i][2] \in DOMAIN acc
         THEN collect_first_wins(pairs, i + 1, acc)
         ELSE collect_first_wins(pairs, i + 1,
                                 HashMapInsert(acc, pairs[i][2], pairs[i][1]))

\* .map(|(k, v)| (v.clone(), k.clone())).collect() over pairs[i..]
RECURSIVE collect(_, _, _)
collect(pairs, i, acc) ==
    IF i > Len(pairs) THEN acc
    ELSE collect(pairs, i + 1, HashMapInsert(acc, pairs[i][2], pairs[i][1]))

\* from_hash_map with the inversion left out: rev starts empty.
from_hash_map_empty_rev(m, order) == Outcome(m, HashMapNew, "ok", None)

from_hash_map(m, order) ==
    Outcome(m, collect(HashMapIter(m, order), 1, HashMapNew), "ok", None)

len(f, r) == HashMapLen(f)

is_empty(f, r) == HashMapLen(f) = 0

\* clear with self.rev.clear() left out.
clear_keeps_rev(f, r) == Outcome(HashMapNew, r, "ok", None)

clear(f, r) == Outcome(HashMapNew, HashMapNew, "ok", None)

\* insert that looks for the key only and overwrites the entry of the value.
insert_key_only(f, r, k, v) ==
    IF k \in DOMAIN f
    THEN Outcome(f, r, "panic", None)
    ELSE Outcome(HashMapInsert(f, k, v), HashMapInsert(r, v, k), "ok", None)

\* insert that looks up both sides before it writes either.
insert_checks_first(f, r, k, v) ==
    IF k \in DOMAIN f \/ v \in DOMAIN r
    THEN Outcome(f, r, "panic", None)
    ELSE Outcome(HashMapInsert(f, k, v), HashMapInsert(r, v, k), "ok", None)

\* insert with the write to rev left out.
insert_skips_rev(f, r, k, v) ==
    IF k \in DOMAIN f \/ v \in DOMAIN r
    THEN Outcome(f, r, "panic", None)
    ELSE Outcome(HashMapInsert(f, k, v), r, "ok", None)

\* insert that writes fwd[k] first and panics on finding it had a value.
insert_overwrites_then_panics(f, r, k, v) ==
    IF k \in DOMAIN f
    THEN Outcome(HashMapInsert(f, k, v), r, "panic", None)
    ELSE IF v \in DOMAIN r
         THEN Outcome(HashMapInsert(f, k, v), r, "panic", None)
         ELSE Outcome(HashMapInsert(f, k, v), HashMapInsert(r, v, k), "ok", None)

insert(f, r, k, v) ==
    IF k \in DOMAIN f
    THEN Outcome(f, r, "panic", None)
    ELSE LET f1 == HashMapInsert(f, k, v)
         IN  IF v \in DOMAIN r
             THEN Outcome(f1, r, "panic", None)
             ELSE Outcome(f1, HashMapInsert(r, v, k), "ok", None)

get_fwd(f, r, k) == HashMapGet(f, k)

get_rev(f, r, v) == HashMapGet(r, v)

\* remove_fwd with self.rev.remove(&v) left out.
remove_fwd_keeps_rev(f, r, k) ==
    LET rm == HashMapRemove(f, k)
    IN  IF rm.out = None
        THEN Outcome(rm.map, r, "panic", None)
        ELSE Outcome(rm.map, r, "ok", rm.out)

\* remove_fwd that returns nothing for an absent key, instead of panicking.
remove_fwd_lenient(f, r, k) ==
    LET rm == HashMapRemove(f, k)
    IN  IF rm.out = None
        THEN Outcome(rm.map, r, "ok", None)
        ELSE Outcome(rm.map, HashMapRemove(r, rm.out[1]).map, "ok", rm.out)

\* remove_fwd that removes the entry of v from rev only when it maps to k.
remove_fwd_checks_mirror(f, r, k) ==
    LET rm == HashMapRemove(f, k)
    IN  IF rm.out = None
        THEN Outcome(rm.map, r, "panic", None)
        ELSE IF HashMapGet(r, rm.out[1]) = Some(k)
             THEN Outcome(rm.map, HashMapRemove(r, rm.out[1]).map, "ok", rm.out)
             ELSE Outcome(rm.map, r, "ok", rm.out)

remove_fwd(f, r, k) ==
    LET rm == HashMapRemove(f, k)
    IN  IF rm.out = None
        THEN Outcome(rm.map, r, "panic", None)
        ELSE Outcome(rm.map, HashMapRemove(r, rm.out[1]).map, "ok", rm.out)

\* remove_rev with self.fwd.remove(&k) left out.
remove_rev_keeps_fwd(f, r, v) ==
    LET rm == HashMapRemove(r, v)
    IN  IF rm.out = None
        THEN Outcome(f, rm.map, "panic", None)
        ELSE Outcome(f, rm.map, "ok", rm.out)

\* remove_rev that drops the entries of fwd holding v before it unwraps.
remove_rev_drops_orphans(f, r, v) ==
    LET rm == HashMapRemove(r, v)
        kept == [k \in {x \in DOMAIN f : f[x] # v} |-> f[k]]
    IN  IF rm.out = None
        THEN Outcome(kept, rm.map, "panic", None)
        ELSE Outcome(kept, rm.map, "ok", rm.out)

\* remove_rev with self.fwd.clear() for self.fwd.remove(&k).
remove_rev_clears_fwd(f, r, v) ==
    LET rm == HashMapRemove(r, v)
    IN  IF rm.out = None
        THEN Outcome(f, rm.map, "panic", None)
        ELSE Outcome(HashMapNew, rm.map, "ok", rm.out)

remove_rev(f, r, v) ==
    LET rm == HashMapRemove(r, v)
    IN  IF rm.out = None
        THEN Outcome(f, rm.map, "panic", None)
        ELSE Outcome(HashMapRemove(f, rm.out[1]).map, rm.map, "ok", rm.out)

contains_fwd(f, r, k) == HashMapContainsKey(f, k)

contains_rev(f, r, v) == HashMapContainsKey(r, v)

iter(f, r, order) == HashMapIter(f, order)

----------------------------------------------------------------------------
(* The documented preconditions of the calls *)

\* "Panics if either the key or value is already present in the bimap"
InsertPre(f, r, k, v) == k \notin DOMAIN f /\ v \notin DOMAIN r

\* remove_fwd removes "the (key, value) pair with the given key"
RemoveFwdPre(f, r, k) == k \in DOMAIN f

\* remove_rev removes "the (key, value) pair with the given value"
RemoveRevPre(f, r, v) == v \in DOMAIN r

\* from_hash_map inverts the map: no two keys may share a value
ValueUnique(m) == \A a, b \in DOMAIN m : m[a] = m[b] => a = b

----------------------------------------------------------------------------
(* The state machine *)

\* The pair the last call removed, when it was a removal that returned.
Removed ==
    IF result = "ok" /\ op = "remove_fwd" THEN Some(<<key[1], ret[1]>>)
    ELSE IF result = "ok" /\ op = "remove_rev" THEN Some(<<ret[1], val[1]>>)
    ELSE None

\* What a call leaves for the next states to look back on.
Remember(call) ==
    /\ freed' = IF call = "insert" THEN Removed ELSE None
    /\ iter_order' = <<>>
    /\ before' = Some([fwd |-> fwd, rev |-> rev])
    /\ origin' = IF call \in {"remove_fwd", "remove_rev"} /\ op = "insert"
                 THEN before ELSE None

Apply(out) ==
    /\ fwd' = out.fwd
    /\ rev' = out.rev
    /\ result' = out.result
    /\ ret' = out.ret

Construct(out) ==
    /\ fwd = out.fwd
    /\ rev = out.rev
    /\ result = out.result
    /\ ret = out.ret

\* Bimap::new(), and with_hasher and default, which differ in the hasher only.
New ==
    /\ Construct(new)
    /\ valid = TRUE
    /\ op = "new"
    /\ key = None
    /\ val = None
    /\ input = HashMapNew
    /\ freed = None
    /\ iter_order = <<>>
    /\ before = None
    /\ origin = None

FromHashMap(m, ord) ==
    /\ Construct(from_hash_map(m, ord))
    /\ valid = ValueUnique(m)
    /\ op = "from_hash_map"
    /\ key = None
    /\ val = None
    /\ input = m
    /\ freed = None
    /\ iter_order = ord
    /\ before = None
    /\ origin = None

\* A Bimap starts as one of its constructors leaves it.
Init ==
    \/ New
    \/ \E m \in HashMaps : \E ord \in IterOrders(m) : FromHashMap(m, ord)

Clear ==
    /\ Apply(clear(fwd, rev))
    /\ valid' = valid
    /\ op' = "clear"
    /\ key' = None
    /\ val' = None
    /\ input' = HashMapNew
    /\ Remember("clear")

Insert(k, v) ==
    /\ Apply(insert(fwd, rev, k, v))
    /\ valid' = (valid /\ InsertPre(fwd, rev, k, v))
    /\ op' = "insert"
    /\ key' = Some(k)
    /\ val' = Some(v)
    /\ input' = HashMapNew
    /\ Remember("insert")

RemoveFwd(k) ==
    /\ Apply(remove_fwd(fwd, rev, k))
    /\ valid' = (valid /\ RemoveFwdPre(fwd, rev, k))
    /\ op' = "remove_fwd"
    /\ key' = Some(k)
    /\ val' = None
    /\ input' = HashMapNew
    /\ Remember("remove_fwd")

RemoveRev(v) ==
    /\ Apply(remove_rev(fwd, rev, v))
    /\ valid' = (valid /\ RemoveRevPre(fwd, rev, v))
    /\ op' = "remove_rev"
    /\ key' = None
    /\ val' = Some(v)
    /\ input' = HashMapNew
    /\ Remember("remove_rev")

Next ==
    \/ Clear
    \/ \E k \in Keys, v \in Vals : Insert(k, v)
    \/ \E k \in Keys : RemoveFwd(k)
    \/ \E v \in Vals : RemoveRev(v)

Spec == Init /\ [][Next]_vars

----------------------------------------------------------------------------
(* Properties *)

\* The two indexes are mirror images: k maps to v exactly when v maps to k.
Bijection(f, r) ==
    \A k \in Keys, v \in Vals :
        (get_fwd(f, r, k) = Some(v)) <=> (get_rev(f, r, v) = Some(k))

\* C1: in every state reached from a constructor by calls that all met their
\* preconditions, get_fwd(k) = Some(v) if and only if get_rev(v) = Some(k),
\* for every key k and value v.
C1_BijectionInvariant == valid => Bijection(fwd, rev)

\* Pairs were inserted, one was removed by key, and at least two remain.
C1_Witness ==
    /\ valid
    /\ op = "remove_fwd"
    /\ result = "ok"
    /\ len(fwd, rev) >= 2

\* C2: insert(k, v) panics exactly when k is a key of fwd or v is a key of rev
\* before the call; when neither holds it returns, with the pair present in
\* both directions and one more element.
C2_InsertPanicsIffDuplicate ==
    [][op' = "insert" =>
        LET k == key'[1]
            v == val'[1]
        IN  /\ result' \in {"ok", "panic"}
            /\ (result' = "panic") <=>
                   (contains_fwd(fwd, rev, k) \/ contains_rev(fwd, rev, v))
            /\ result' = "ok" =>
                   /\ get_fwd(fwd', rev', k) = Some(v)
                   /\ get_rev(fwd', rev', v) = Some(k)
                   /\ len(fwd', rev') = len(fwd, rev) + 1]_vars

\* An insert of a pair the map already held, as it was, panicked.
C2_Witness ==
    /\ op = "insert"
    /\ result = "panic"
    /\ valid = FALSE
    /\ get_fwd(fwd, rev, key[1]) = val
    /\ get_rev(fwd, rev, val[1]) = key

\* C3: insert(k, v) with k absent from fwd and v present in rev, mapped to a
\* key k0 # k, panics after fwd was written: afterwards get_fwd(k) = Some(v),
\* get_rev(v) = Some(k0), the bijection is broken and len() is one more.
C3_InsertPartialFailure ==
    [][(/\ op' = "insert"
        /\ ~contains_fwd(fwd, rev, key'[1])
        /\ contains_rev(fwd, rev, val'[1])
        /\ get_rev(fwd, rev, val'[1]) # key') =>
        LET k == key'[1]
            v == val'[1]
        IN  /\ result' = "panic"
            /\ get_fwd(fwd', rev', k) = Some(v)
            /\ get_rev(fwd', rev', v) = get_rev(fwd, rev, v)
            /\ ~Bijection(fwd', rev')
            /\ len(fwd', rev') = len(fwd, rev) + 1]_vars

\* An insert panicked and left its key in fwd, with the value owned by
\* another key in rev.
C3_Witness ==
    /\ op = "insert"
    /\ result = "panic"
    /\ get_fwd(fwd, rev, key[1]) = val
    /\ get_rev(fwd, rev, val[1]) # None
    /\ get_rev(fwd, rev, val[1]) # key
    /\ ~Bijection(fwd, rev)

\* C4: in a valid state, insert(k, v) with k absent from fwd and v absent from
\* rev returns, and right after it get_fwd(k) = Some(v), get_rev(v) = Some(k),
\* contains_fwd(k) and contains_rev(v).
C4_InsertRoundTrip ==
    [][(/\ op' = "insert"
        /\ valid
        /\ ~contains_fwd(fwd, rev, key'[1])
        /\ ~contains_rev(fwd, rev, val'[1])) =>
        LET k == key'[1]
            v == val'[1]
        IN  /\ result' = "ok"
            /\ get_fwd(fwd', rev', k) = Some(v)
            /\ get_rev(fwd', rev', v) = Some(k)
            /\ contains_fwd(fwd', rev', k)
            /\ contains_rev(fwd', rev', v)]_vars

\* An insert into a valid map that held a pair already returned.
C4_Witness ==
    /\ valid
    /\ op = "insert"
    /\ result = "ok"
    /\ len(fwd, rev) >= 2
    /\ get_fwd(fwd, rev, key[1]) = val
    /\ get_rev(fwd, rev, val[1]) = key

\* C5: in a valid state with get_fwd(k) = Some(v), remove_fwd(k) returns v;
\* afterwards contains_fwd(k) and contains_rev(v) are false and len() is one
\* less.
C5_RemoveFwdSymmetry ==
    [][(/\ op' = "remove_fwd"
        /\ valid
        /\ get_fwd(fwd, rev, key'[1]) # None) =>
        LET k == key'[1]
            v == get_fwd(fwd, rev, k)[1]
        IN  /\ result' = "ok"
            /\ ret' = Some(v)
            /\ ~contains_fwd(fwd', rev', k)
            /\ ~contains_rev(fwd', rev', v)
            /\ len(fwd', rev') = len(fwd, rev) - 1]_vars

\* A removal by key from a valid map returned a value and left a pair behind.
C5_Witness ==
    /\ valid
    /\ op = "remove_fwd"
    /\ result = "ok"
    /\ ret \in {Some(v) : v \in Vals}
    /\ len(fwd, rev) >= 1

\* C6: in a valid state with get_rev(v) = Some(k), remove_rev(v) returns k;
\* afterwards contains_rev(v) and contains_fwd(k) are false and len() is one
\* less.
C6_RemoveRevSymmetry ==
    [][(/\ op' = "remove_rev"
        /\ valid
        /\ get_rev(fwd, rev, val'[1]) # None) =>
        LET v == val'[1]
            k == get_rev(fwd, rev, v)[1]
        IN  /\ result' = "ok"
            /\ ret' = Some(k)
            /\ ~contains_rev(fwd', rev', v)
            /\ ~contains_fwd(fwd', rev', k)
            /\ len(fwd', rev') = len(fwd, rev) - 1]_vars

\* A removal by value from a valid map returned a key and left a pair behind.
C6_Witness ==
    /\ valid
    /\ op = "remove_rev"
    /\ result = "ok"
    /\ ret \in {Some(k) : k \in Keys}
    /\ len(fwd, rev) >= 1

\* C7: remove_fwd(k) with k absent from fwd panics, and remove_rev(v) with v
\* absent from rev panics; neither returns anything then.
C7_RemoveAbsentPanics ==
    [][/\ (op' = "remove_fwd" /\ ~contains_fwd(fwd, rev, key'[1])) =>
              (result' = "panic" /\ ret' = None)
       /\ (op' = "remove_rev" /\ ~contains_rev(fwd, rev, val'[1])) =>
              (result' = "panic" /\ ret' = None)]_vars

\* A removal by a key the (non-empty) map did not hold panicked.
C7_Witness ==
    /\ op = "remove_fwd"
    /\ result = "panic"
    /\ ret = None
    /\ ~contains_fwd(fwd, rev, key[1])
    /\ len(fwd, rev) >= 1

\* C8: in every state reached from a constructor by calls that all met their
\* preconditions, len() is the number of pairs iter() yields (in whichever
\* order), fwd and rev hold the same number of entries, and is_empty() is
\* true exactly when that number is zero.
C8_CountConsistency ==
    valid =>
        /\ \A order \in IterOrders(fwd) :
               Len(iter(fwd, rev, order)) = len(fwd, rev)
        /\ HashMapLen(fwd) = HashMapLen(rev)
        /\ is_empty(fwd, rev) <=> (HashMapLen(rev) = 0)

\* A valid map that holds two pairs or more after an insert.
C8_Witness ==
    /\ valid
    /\ op = "insert"
    /\ HashMapLen(fwd) >= 2
    /\ HashMapLen(rev) >= 2
    /\ ~is_empty(fwd, rev)

\* C9: in a valid state, once remove_fwd(k) has returned v (or remove_rev(v)
\* has returned k), a following insert(k, v2) with v2 not in the map, and a
\* following insert(k2, v) with k2 not in the map, returns and establishes the
\* new pair in both directions.
C9_ReplaceByRemoveThenInsert ==
    [][(/\ valid
        /\ Removed # None
        /\ op' = "insert"
        /\ \/ (key'[1] = Removed[1][1] /\ ~contains_rev(fwd, rev, val'[1]))
           \/ (val'[1] = Removed[1][2] /\ ~contains_fwd(fwd, rev, key'[1]))) =>
        /\ result' = "ok"
        /\ get_fwd(fwd', rev', key'[1]) = val'
        /\ get_rev(fwd', rev', val'[1]) = key']_vars

\* The key of the pair just removed was inserted again with another value,
\* beside a pair that stayed.
C9_Witness ==
    /\ valid
    /\ freed # None
    /\ op = "insert"
    /\ result = "ok"
    /\ key[1] = freed[1][1]
    /\ val[1] # freed[1][2]
    /\ len(fwd, rev) >= 2

\* C10: from_hash_map(m), for m in which no two keys share a value, yields a
\* map with len() = |m|, get_fwd(k) = Some(m[k]) for every key k of m, and
\* get_rev(v) = Some(k) exactly when m[k] = v.
C10_FromHashMapInverts ==
    (op = "from_hash_map" /\ ValueUnique(input)) =>
        /\ result = "ok"
        /\ len(fwd, rev) = HashMapLen(input)
        /\ \A k \in DOMAIN input : get_fwd(fwd, rev, k) = Some(input[k])
        /\ \A k \in Keys, v \in Vals :
               (get_rev(fwd, rev, v) = Some(k)) <=>
                   (k \in DOMAIN input /\ input[k] = v)

\* A map built from a value-unique HashMap of two entries or more.
C10_Witness ==
    /\ op = "from_hash_map"
    /\ ValueUnique(input)
    /\ HashMapLen(input) >= 2
    /\ HashMapLen(rev) = HashMapLen(input)

\* The key from_hash_map inverted last among the keys of its input that map
\* to v.
LastInverted(v) ==
    LET at == {i \in 1..Len(iter_order) : input[iter_order[i]] = v}
        last == CHOOSE i \in at : \A j \in at : j <= i
    IN  iter_order[last]

\* C11: from_hash_map(m), for m in which two keys or more share a value,
\* returns without panicking; fwd keeps every pair of m, rev holds for each
\* value of m one entry only, the key inverted last among those that map to
\* it, and so rev has fewer entries than len() reports.
C11_FromHashMapNoValidation ==
    (op = "from_hash_map" /\ ~ValueUnique(input)) =>
        /\ result = "ok"
        /\ len(fwd, rev) = HashMapLen(input)
        /\ \A k \in Keys : get_fwd(fwd, rev, k) = HashMapGet(input, k)
        /\ \A v \in Vals :
               get_rev(fwd, rev, v) =
                   IF \E k \in DOMAIN input : input[k] = v
                   THEN Some(LastInverted(v)) ELSE None
        /\ HashMapLen(rev) < len(fwd, rev)

\* A map built from a HashMap in which two keys share a value, with the
\* greater of the two inverted first and the smaller one kept in rev.
C11_Witness ==
    /\ op = "from_hash_map"
    /\ result = "ok"
    /\ \E a, b \in DOMAIN input :
           /\ a < b
           /\ input[a] = input[b]
           /\ get_rev(fwd, rev, input[a]) = Some(a)
    /\ HashMapLen(rev) < HashMapLen(fwd)

\* C12: clear() never panics and, from any state, a broken one included,
\* leaves len() = 0 and is_empty() true, with get_fwd, get_rev, contains_fwd
\* and contains_rev reporting every key and every value absent.
C12_ClearEmptiesFully ==
    op = "clear" =>
        /\ result = "ok"
        /\ len(fwd, rev) = 0
        /\ is_empty(fwd, rev)
        /\ \A k \in Keys :
               get_fwd(fwd, rev, k) = None /\ ~contains_fwd(fwd, rev, k)
        /\ \A v \in Vals :
               get_rev(fwd, rev, v) = None /\ ~contains_rev(fwd, rev, v)
        /\ HashMapLen(fwd) = 0
        /\ HashMapLen(rev) = 0

\* clear() was called on a map whose two indexes disagreed, rev holding an
\* entry and fwd more than rev.
C12_Witness ==
    /\ op = "clear"
    /\ before # None
    /\ ~Bijection(before[1].fwd, before[1].rev)
    /\ HashMapLen(before[1].rev) >= 1
    /\ HashMapLen(before[1].fwd) > HashMapLen(before[1].rev)

\* C13: insert(k, v) with k present in fwd, whether or not v is present in
\* rev, panics with fwd and rev exactly as they were before the call.
C13_DuplicateKeyInsertNoEffect ==
    (op = "insert" /\ contains_fwd(before[1].fwd, before[1].rev, key[1])) =>
        /\ result = "panic"
        /\ ret = None
        /\ fwd = before[1].fwd
        /\ rev = before[1].rev

\* An insert of a key the map held, with another value than the key had,
\* itself held by the map, panicked.
C13_Witness ==
    /\ op = "insert"
    /\ result = "panic"
    /\ contains_fwd(before[1].fwd, before[1].rev, key[1])
    /\ contains_rev(before[1].fwd, before[1].rev, val[1])
    /\ get_fwd(before[1].fwd, before[1].rev, key[1]) # val
    /\ get_fwd(fwd, rev, key[1]) # val

\* C14: remove_fwd(k) with k absent from fwd, and remove_rev(v) with v absent
\* from rev, panics with fwd and rev exactly as they were before the call.
C14_FailedRemovalNoEffect ==
    /\ (op = "remove_fwd"
            /\ ~contains_fwd(before[1].fwd, before[1].rev, key[1])) =>
           /\ result = "panic"
           /\ fwd = before[1].fwd
           /\ rev = before[1].rev
    /\ (op = "remove_rev"
            /\ ~contains_rev(before[1].fwd, before[1].rev, val[1])) =>
           /\ result = "panic"
           /\ fwd = before[1].fwd
           /\ rev = before[1].rev

\* A removal by a value that rev did not hold, though a key of fwd mapped to
\* it, panicked and left that key in fwd.
C14_Witness ==
    /\ op = "remove_rev"
    /\ result = "panic"
    /\ ~contains_rev(before[1].fwd, before[1].rev, val[1])
    /\ \E k \in Keys : get_fwd(before[1].fwd, before[1].rev, k) = val
    /\ \E k \in Keys : get_fwd(fwd, rev, k) = val

\* The pair the last call was about: the one it inserted or removed.
Touched ==
    IF op = "insert" THEN <<key[1], val[1]>>
    ELSE IF op = "remove_fwd" THEN <<key[1], ret[1]>>
    ELSE <<ret[1], val[1]>>

\* C15: in a valid state, an insert(k, v), remove_fwd(k) or remove_rev(v)
\* that returns changes the entries of that one pair only: for every other
\* key k2 # k and value v2 # v, get_fwd(k2) and get_rev(v2) are as before.
C15_SinglePairFrame ==
    (valid /\ result = "ok" /\ op \in {"insert", "remove_fwd", "remove_rev"}) =>
        /\ \A k2 \in Keys \ {Touched[1]} :
               get_fwd(fwd, rev, k2) = get_fwd(before[1].fwd, before[1].rev, k2)
        /\ \A v2 \in Vals \ {Touched[2]} :
               get_rev(fwd, rev, v2) = get_rev(before[1].fwd, before[1].rev, v2)

\* A removal by value from a valid map of three pairs returned, and the two
\* other pairs are there.
C15_Witness ==
    /\ valid
    /\ op = "remove_rev"
    /\ result = "ok"
    /\ HashMapLen(before[1].fwd) = 3
    /\ HashMapLen(fwd) = 2
    /\ HashMapLen(rev) = 2
    /\ \A k \in DOMAIN fwd : get_fwd(before[1].fwd, before[1].rev, k) = Some(fwd[k])

\* C16: in a valid state with k absent from fwd and v absent from rev,
\* insert(k, v) followed by remove_fwd(k), or by remove_rev(v), returns v,
\* respectively k, and leaves both maps with exactly the contents they had
\* before the insert.
C16_InsertRemoveInverse ==
    [][(/\ valid
        /\ op = "insert"
        /\ result = "ok"
        /\ \/ (op' = "remove_fwd" /\ key' = key)
           \/ (op' = "remove_rev" /\ val' = val)) =>
        /\ result' = "ok"
        /\ ret' = IF op' = "remove_fwd" THEN val ELSE key
        /\ fwd' = before[1].fwd
        /\ rev' = before[1].rev]_vars

\* A pair was inserted into a valid map that held another pair, then removed
\* by its key: the maps are as the insert found them.
C16_Witness ==
    /\ valid
    /\ op = "remove_fwd"
    /\ result = "ok"
    /\ origin # None
    /\ ~contains_fwd(origin[1].fwd, origin[1].rev, key[1])
    /\ ~contains_rev(origin[1].fwd, origin[1].rev, ret[1])
    /\ HashMapLen(origin[1].fwd) >= 1
    /\ fwd = origin[1].fwd
    /\ rev = origin[1].rev

\* C17: in the state left by an insert(k, v) that panicked on v, held by
\* another key k0 (fwd holds k->v and k0->v, rev holds v->k0), remove_fwd(k)
\* returns v and removes the entry of v from rev though it maps to k0;
\* afterwards get_fwd(k0) = Some(v) still, contains_rev(v) is false, and the
\* two maps are no bijection.
C17_RemoveDeletesForeignMirror ==
    [][(/\ op = "insert"
        /\ result = "panic"
        /\ ~contains_fwd(before[1].fwd, before[1].rev, key[1])
        /\ get_rev(fwd, rev, val[1]) # None
        /\ get_rev(fwd, rev, val[1]) # key
        /\ op' = "remove_fwd"
        /\ key' = key) =>
        LET k == key[1]
            v == val[1]
            k0 == get_rev(fwd, rev, v)[1]
        IN  /\ get_fwd(fwd, rev, k) = Some(v)
            /\ get_fwd(fwd, rev, k0) = Some(v)
            /\ result' = "ok"
            /\ ret' = Some(v)
            /\ ~contains_fwd(fwd', rev', k)
            /\ ~contains_rev(fwd', rev', v)
            /\ get_fwd(fwd', rev', k0) = Some(v)
            /\ ~Bijection(fwd', rev')]_vars

\* An insert found its key absent and its value held by another key, and the
\* key was then removed: the other key maps to the value, and rev has lost it.
C17_Witness ==
    /\ op = "remove_fwd"
    /\ result = "ok"
    /\ origin # None
    /\ ~contains_fwd(origin[1].fwd, origin[1].rev, key[1])
    /\ contains_rev(origin[1].fwd, origin[1].rev, ret[1])
    /\ get_rev(origin[1].fwd, origin[1].rev, ret[1]) # key
    /\ get_fwd(fwd, rev, get_rev(origin[1].fwd, origin[1].rev, ret[1])[1]) = ret
    /\ ~contains_rev(fwd, rev, ret[1])
    /\ ~Bijection(fwd, rev)

====
